---- MODULE Spec2Model ----
(***************************************************************************)
(* State-machine model of the recipe API: the Tag / Ingredient / Recipe    *)
(* view sets of app/recipe/views.py with the serializers of                *)
(* app/recipe/serializers.py.  One action per request handler; the store   *)
(* is the relational state (rows of the three tables with the two          *)
(* many-to-many association sets kept on the recipe row).                  *)
(***************************************************************************)
EXTENDS Integers, Sequences, FiniteSets, TLC

VARIABLES tags, ingredients, recipes, nextRecipeId, writes, request, response,
          users, call

vars == <<tags, ingredients, recipes, nextRecipeId, writes, request, response,
         users, call>>
store == <<tags, ingredients, recipes, nextRecipeId>>
db == <<tags, ingredients, recipes, nextRecipeId, writes>>
accounts == <<users, call>>
api == <<tags, ingredients, recipes, nextRecipeId, writes, request, response>>

(***************************************************************************)
(* Bounds of the model.                                                    *)
(***************************************************************************)
MaxWrites == 3                  \* requests that change the store, per behaviour

(***************************************************************************)
(* Value domains.                                                          *)
(***************************************************************************)
Anon == 0                       \* request without valid credentials
Users == {1, 2}
Callers == Users \cup {Anon}
Names == {1, 2}                 \* names, abstracted to ordered values
Values == {1, 2}                \* values of title / time_minutes / price / link
Blank == 0                      \* link '' and the empty image slot
NoParam == <<>>                 \* query parameter absent (query_params.get -> None)

NoOwner == 0                    \* request body without a user field

HTTP_200_OK == 200
HTTP_201_CREATED == 201
HTTP_400_BAD_REQUEST == 400
HTTP_401_UNAUTHORIZED == 401

(***************************************************************************)
(* Sequence helpers standing for the ORM's row lists.                      *)
(***************************************************************************)
Range(s) == {s[i] : i \in DOMAIN s}

RECURSIVE Repeat(_, _)
Repeat(x, n) == IF n = 0 THEN <<>> ELSE <<x>> \o Repeat(x, n - 1)

RECURSIVE SetToSeq(_)
\* ascending id order: the table order of objects.all()
SetToSeq(S) ==
    IF S = {} THEN <<>>
    ELSE LET m == CHOOSE x \in S : \A y \in S : x <= y
         IN <<m>> \o SetToSeq(S \ {m})

RECURSIVE InsertDesc(_, _, _)
InsertDesc(x, s, key) ==
    IF s = <<>> THEN <<x>>
    ELSE IF key[x] > key[Head(s)] THEN <<x>> \o s
    ELSE <<Head(s)>> \o InsertDesc(x, Tail(s), key)

RECURSIVE OrderByDesc(_, _)
\* ORDER BY key DESC; rows of equal key keep their store order
OrderByDesc(s, key) ==
    IF s = <<>> THEN <<>>
    ELSE InsertDesc(Head(s), OrderByDesc(Tail(s), key), key)

RECURSIVE Distinct(_)
\* SELECT DISTINCT: one row per distinct row value, order kept
Distinct(s) ==
    IF s = <<>> THEN <<>>
    ELSE <<Head(s)>> \o Distinct(SelectSeq(Tail(s), LAMBDA x : x # Head(s)))

Count(s, x) == Cardinality({i \in DOMAIN s : s[i] = x})

(***************************************************************************)
(* Requests and responses.  A query parameter is the list of the tokens    *)
(* its raw string splits into at ','; the raw string '' is <<"">>.         *)
(***************************************************************************)
IntTokens == {"0", "1", "2", "3"}

\* int(str_id): defined on the decimal tokens, raises ValueError elsewhere
IsIntToken(t) == t \in IntTokens
ToInt(t) == CASE t = "0" -> 0 [] t = "1" -> 1 [] t = "2" -> 2 [] t = "3" -> 3

\* truthiness of a query_params.get(...) value: None and '' are falsy
Truthy(qs) == qs # NoParam /\ qs # <<"">>

NoPayload ==
    [fields |-> {}, name |-> Blank, title |-> Blank, time_minutes |-> Blank,
     price |-> Blank, link |-> Blank, tags |-> {}, ingredients |-> {},
     user |-> NoOwner, image |-> "none"]

NoParams == [assigned_only |-> NoParam, tags |-> NoParam,
             ingredients |-> NoParam, user |-> NoParam]

NoRequest ==
    [resource |-> "none", action |-> "none", caller |-> Anon, pk |-> 0,
     params |-> NoParams, payload |-> NoPayload, format |-> "json"]

Req(resource, action, caller) ==
    [NoRequest EXCEPT !.resource = resource, !.action = action, !.caller = caller]

Resp(status, data) == [status |-> status, data |-> data]
NoResponse == Resp(0, <<>>)

\* no request is being handled: each request is handled on its own, to its end
Idle == request = NoRequest

(***************************************************************************)
(* Access control.                                                         *)
(***************************************************************************)
HasPermission(permission, caller) ==
    CASE permission = "IsAuthenticated" -> caller # Anon
      [] permission = "AllowAny" -> TRUE

\* BaseRecipeAttrViewSet.permission_classes
AttrPermissionClasses == {"IsAuthenticated"}

\* RecipeViewSet sets no permission_classes: the framework default applies
RecipePermissionClasses == {"AllowAny"}

RecipeActionsWithPermissions ==
    {"create", "update", "partial_update", "destroy", "list", "retrieve"}

\* the table without its 'destroy' entry
permission_classes_by_action_NoDestroy ==
    [a \in RecipeActionsWithPermissions \ {"destroy"} |->
        IF a \in {"list", "retrieve"} THEN {"AllowAny"} ELSE {"IsAuthenticated"}]

permission_classes_by_action ==
    [a \in RecipeActionsWithPermissions |->
        IF a \in {"list", "retrieve"} THEN {"AllowAny"} ELSE {"IsAuthenticated"}]

\* RecipeViewSet.get_permissions: the table entry, on KeyError the class default
RecipeGetPermissions(action) ==
    IF action \in DOMAIN permission_classes_by_action
    THEN permission_classes_by_action[action]
    ELSE RecipePermissionClasses

\* APIView.check_permissions, run before the handler
Permitted(permissions, caller) ==
    \A p \in permissions : HasPermission(p, caller)

(***************************************************************************)
(* Tag / Ingredient view sets (BaseRecipeAttrViewSet).                     *)
(***************************************************************************)
Table(kind) == IF kind = "tag" THEN tags ELSE ingredients
Kinds == {"tag", "ingredient"}

Links(r, kind) == IF kind = "tag" THEN recipes[r].tags ELSE recipes[r].ingredients

\* recipes linked to entity id of the given kind
LinkedRecipes(kind, id) == {r \in DOMAIN recipes : id \in Links(r, kind)}

RECURSIVE FilterRecipeNotNull(_, _)
\* filter(recipe__isnull=False): the join yields one row per (entity, recipe) link
FilterRecipeNotNull(rows, kind) ==
    IF rows = <<>> THEN <<>>
    ELSE Repeat(Head(rows), Cardinality(LinkedRecipes(kind, Head(rows))))
           \o FilterRecipeNotNull(Tail(rows), kind)

\* bool(int(query_params.get('assigned_only', 0)))
AssignedOnlyRaises(param) == param # NoParam /\ ~IsIntToken(param[1])
AssignedOnly(param) == IF param = NoParam THEN FALSE ELSE ToInt(param[1]) # 0

\* get_queryset without the filter(user=...) step
AttrGetQuerysetAnyOwner(kind, user, assigned_only) ==
    LET table == Table(kind)
        queryset == [i \in 1..Len(table) |-> i]
        assigned == IF assigned_only THEN FilterRecipeNotNull(queryset, kind)
                    ELSE queryset
        name == [i \in 1..Len(table) |-> table[i].name]
    IN Distinct(OrderByDesc(assigned, name))

\* get_queryset without the distinct() step
AttrGetQuerysetNoDistinct(kind, user, assigned_only) ==
    LET table == Table(kind)
        queryset == [i \in 1..Len(table) |-> i]
        assigned == IF assigned_only THEN FilterRecipeNotNull(queryset, kind)
                    ELSE queryset
        owned == SelectSeq(assigned, LAMBDA i : table[i].user = user)
        name == [i \in 1..Len(table) |-> table[i].name]
    IN OrderByDesc(owned, name)

AttrGetQueryset(kind, user, assigned_only) ==
    LET table == Table(kind)
        queryset == [i \in 1..Len(table) |-> i]
        assigned == IF assigned_only THEN FilterRecipeNotNull(queryset, kind)
                    ELSE queryset
        owned == SelectSeq(assigned, LAMBDA i : table[i].user = user)
        name == [i \in 1..Len(table) |-> table[i].name]
    IN Distinct(OrderByDesc(owned, name))

\* perform_create: serializer.save(user=self.request.user)
AttrPerformCreate(caller, payload) == [user |-> caller, name |-> payload.name]

\* TagSerializer / IngredientSerializer: name must be non-empty
AttrIsValid(payload) == "name" \in payload.fields /\ payload.name # Blank

AttrList(kind, caller, param) ==
    /\ Idle
    /\ UNCHANGED accounts
    /\ request' = [Req(kind, "list", caller) EXCEPT !.params.assigned_only = param]
    /\ response' =
         IF ~Permitted(AttrPermissionClasses, caller)
         THEN Resp(HTTP_401_UNAUTHORIZED, <<>>)
         ELSE IF AssignedOnlyRaises(param) THEN Resp(500, <<>>)
         ELSE Resp(HTTP_200_OK, AttrGetQueryset(kind, caller, AssignedOnly(param)))
    /\ UNCHANGED db

AttrCreate(kind, caller, name, bodyUser) ==
    LET payload == [NoPayload EXCEPT
                      !.fields = {"name"} \cup (IF bodyUser = NoOwner THEN {} ELSE {"user"}),
                      !.name = name, !.user = bodyUser]
        table == Table(kind)
        created == Append(table, AttrPerformCreate(caller, payload))
    IN /\ Idle
       /\ UNCHANGED accounts
       /\ request' = [Req(kind, "create", caller) EXCEPT !.payload = payload]
       /\ IF ~Permitted(AttrPermissionClasses, caller)
          THEN /\ response' = Resp(HTTP_401_UNAUTHORIZED, <<>>)
               /\ UNCHANGED db
          ELSE IF ~AttrIsValid(payload)
          THEN /\ response' = Resp(HTTP_400_BAD_REQUEST, <<>>)
               /\ UNCHANGED db
          ELSE /\ writes < MaxWrites
               /\ writes' = writes + 1
               /\ response' = Resp(HTTP_201_CREATED, <<Len(created)>>)
               /\ IF kind = "tag"
                  THEN tags' = created /\ UNCHANGED ingredients
                  ELSE ingredients' = created /\ UNCHANGED tags
               /\ UNCHANGED <<recipes, nextRecipeId>>

(***************************************************************************)
(* Recipe serializer (RecipeSerializer, a ModelSerializer).                *)
(***************************************************************************)
SerializerFields ==
    {"title", "ingredients", "tags", "time_minutes", "price", "link"}

\* declared fields without a default: ingredients and tags (serializers.py),
\* title, time_minutes and price (the payloads of the create / update tests)
RequiredFields == {"title", "ingredients", "tags", "time_minutes", "price"}

ManyRelatedFields == {"ingredients", "tags"}

\* a missing many-related field has no value, whatever the encoding
SubmittedFieldsAsSent(payload, format, partial) ==
    payload.fields \cap SerializerFields

\* The fields the serializer reads a value for.  A form-encoded body cannot
\* express an empty list: on a non-partial request a many-related field that
\* is missing from it reads as [], on a partial one it is skipped.  A field
\* missing from a JSON body has no value.  Unknown body fields are ignored.
SubmittedFields(payload, format, partial) ==
    (payload.fields \cap SerializerFields)
      \cup (IF format = "multipart" /\ ~partial THEN ManyRelatedFields ELSE {})

\* PrimaryKeyRelatedField(many=True, queryset=...objects.all()): existing ids only
RelatedIdsExist(payload, submitted) ==
    /\ "tags" \in submitted => payload.tags \subseteq 1..Len(tags)
    /\ "ingredients" \in submitted => payload.ingredients \subseteq 1..Len(ingredients)

RecipeIsValid(payload, format, partial) ==
    LET submitted == SubmittedFields(payload, format, partial)
    IN /\ partial \/ RequiredFields \subseteq submitted
       /\ RelatedIdsExist(payload, submitted)

\* ModelSerializer.create with the keyword arguments of serializer.save(...)
SerializerCreate(owner, payload, submitted) ==
    [user |-> owner,
     title |-> payload.title,
     time_minutes |-> payload.time_minutes,
     price |-> payload.price,
     link |-> IF "link" \in submitted THEN payload.link ELSE Blank,
     image |-> Blank,
     tags |-> payload.tags,
     ingredients |-> payload.ingredients]

\* an update that adds the submitted tags to the stored ones
SerializerUpdateAddTags(instance, payload, submitted) ==
    [user |-> instance.user,
     title |-> IF "title" \in submitted THEN payload.title ELSE instance.title,
     time_minutes |-> IF "time_minutes" \in submitted THEN payload.time_minutes
                      ELSE instance.time_minutes,
     price |-> IF "price" \in submitted THEN payload.price ELSE instance.price,
     link |-> IF "link" \in submitted THEN payload.link ELSE instance.link,
     image |-> instance.image,
     tags |-> IF "tags" \in submitted THEN instance.tags \cup payload.tags
              ELSE instance.tags,
     ingredients |-> IF "ingredients" \in submitted THEN payload.ingredients
                     ELSE instance.ingredients]

\* ModelSerializer.update: setattr for each validated field, .set() for the
\* many-to-many ones; fields without a validated value are left alone
SerializerUpdate(instance, payload, submitted) ==
    [user |-> instance.user,
     title |-> IF "title" \in submitted THEN payload.title ELSE instance.title,
     time_minutes |-> IF "time_minutes" \in submitted THEN payload.time_minutes
                      ELSE instance.time_minutes,
     price |-> IF "price" \in submitted THEN payload.price ELSE instance.price,
     link |-> IF "link" \in submitted THEN payload.link ELSE instance.link,
     image |-> instance.image,
     tags |-> IF "tags" \in submitted THEN payload.tags ELSE instance.tags,
     ingredients |-> IF "ingredients" \in submitted THEN payload.ingredients
                     ELSE instance.ingredients]

(***************************************************************************)
(* Recipe view set.                                                        *)
(***************************************************************************)
\* _params_to_ints: int() of each token of qs.split(',')
ParamsToIntsRaises(qs) == \E i \in DOMAIN qs : ~IsIntToken(qs[i])
ParamsToInts(qs) == [i \in DOMAIN qs |-> ToInt(qs[i])]

RECURSIVE FilterLinkedAll(_, _, _)
\* a filter that keeps the rows linked to every id of the list
FilterLinkedAll(rows, kind, ids) ==
    IF rows = <<>> THEN <<>>
    ELSE (IF ids \subseteq Links(Head(rows), kind) THEN <<Head(rows)>> ELSE <<>>)
           \o FilterLinkedAll(Tail(rows), kind, ids)

RECURSIVE FilterLinkedIn(_, _, _)
\* filter(tags__id__in=ids): the join yields one row per link whose id is in ids
FilterLinkedIn(rows, kind, ids) ==
    IF rows = <<>> THEN <<>>
    ELSE Repeat(Head(rows), Cardinality(Links(Head(rows), kind) \cap ids))
           \o FilterLinkedIn(Tail(rows), kind, ids)

GetQuerysetRaises(params) ==
    \/ Truthy(params.tags) /\ ParamsToIntsRaises(params.tags)
    \/ Truthy(params.ingredients) /\ ParamsToIntsRaises(params.ingredients)
    \/ Truthy(params.user) /\ ParamsToIntsRaises(params.user)

\* RecipeViewSet.get_queryset
RecipeGetQueryset(params) ==
    LET queryset == SetToSeq(DOMAIN recipes)
        byTags == IF Truthy(params.tags)
                  THEN FilterLinkedIn(queryset, "tag",
                                      Range(ParamsToInts(params.tags)))
                  ELSE queryset
        byIngredients == IF Truthy(params.ingredients)
                         THEN FilterLinkedIn(byTags, "ingredient",
                                             Range(ParamsToInts(params.ingredients)))
                         ELSE byTags
        byAuthor == IF Truthy(params.user)
                    THEN SelectSeq(byIngredients,
                           LAMBDA r : recipes[r].user = ToInt(params.user[1]))
                    ELSE byIngredients
        id == [r \in DOMAIN recipes |-> r]
    IN OrderByDesc(byAuthor, id)

\* a create that lets the body's user field name the owner
RecipePerformCreateBodyOwner(caller, payload, submitted) ==
    SerializerCreate(IF "user" \in payload.fields THEN payload.user ELSE caller,
                     payload, submitted)

\* perform_create: serializer.save(user=self.request.user)
RecipePerformCreate(caller, payload, submitted) ==
    SerializerCreate(caller, payload, submitted)

\* get_object: the row of get_queryset() with this primary key, else 404
ObjectExists(pk) == pk \in Range(RecipeGetQueryset(NoParams))

Put(rs, pk, row) == [r \in DOMAIN rs \cup {pk} |-> IF r = pk THEN row ELSE rs[r]]
Remove(rs, pk) == [r \in DOMAIN rs \ {pk} |-> rs[r]]

RecipePayload(fields, v, tagIds, ingredientIds, bodyUser) ==
    [NoPayload EXCEPT
       !.fields = fields,
       !.title = IF "title" \in fields THEN v ELSE Blank,
       !.time_minutes = IF "time_minutes" \in fields THEN v ELSE Blank,
       !.price = IF "price" \in fields THEN v ELSE Blank,
       !.link = IF "link" \in fields THEN v ELSE Blank,
       !.tags = IF "tags" \in fields THEN tagIds ELSE {},
       !.ingredients = IF "ingredients" \in fields THEN ingredientIds ELSE {},
       !.user = IF "user" \in fields THEN bodyUser ELSE NoOwner]

RecipeList(caller, params) ==
    /\ Idle
    /\ UNCHANGED accounts
    /\ request' = [Req("recipe", "list", caller) EXCEPT !.params = params]
    /\ response' =
         IF ~Permitted(RecipeGetPermissions("list"), caller)
         THEN Resp(HTTP_401_UNAUTHORIZED, <<>>)
         ELSE IF GetQuerysetRaises(params) THEN Resp(500, <<>>)
         ELSE Resp(HTTP_200_OK, RecipeGetQueryset(params))
    /\ UNCHANGED db

RecipeRetrieve(caller, pk) ==
    /\ Idle
    /\ UNCHANGED accounts
    /\ request' = [Req("recipe", "retrieve", caller) EXCEPT !.pk = pk]
    /\ response' =
         IF ~Permitted(RecipeGetPermissions("retrieve"), caller)
         THEN Resp(HTTP_401_UNAUTHORIZED, <<>>)
         ELSE IF ~ObjectExists(pk) THEN Resp(404, <<>>)
         ELSE Resp(HTTP_200_OK, <<pk>>)
    /\ UNCHANGED db

RecipeCreate(caller, payload, format) ==
    LET submitted == SubmittedFields(payload, format, FALSE)
    IN /\ Idle
       /\ UNCHANGED accounts
       /\ request' = [Req("recipe", "create", caller) EXCEPT
                        !.payload = payload, !.format = format]
       /\ IF ~Permitted(RecipeGetPermissions("create"), caller)
          THEN /\ response' = Resp(HTTP_401_UNAUTHORIZED, <<>>)
               /\ UNCHANGED db
          ELSE IF ~RecipeIsValid(payload, format, FALSE)
          THEN /\ response' = Resp(HTTP_400_BAD_REQUEST, <<>>)
               /\ UNCHANGED db
          ELSE /\ writes < MaxWrites
               /\ writes' = writes + 1
               /\ response' = Resp(HTTP_201_CREATED, <<nextRecipeId>>)
               /\ recipes' = Put(recipes, nextRecipeId,
                                 RecipePerformCreate(caller, payload, submitted))
               /\ nextRecipeId' = nextRecipeId + 1
               /\ UNCHANGED <<tags, ingredients>>

\* update (PUT) and partial_update (PATCH) of UpdateModelMixin
RecipeUpdate(caller, pk, payload, format, partial) ==
    LET action == IF partial THEN "partial_update" ELSE "update"
        submitted == SubmittedFields(payload, format, partial)
    IN /\ Idle
       /\ UNCHANGED accounts
       /\ request' = [Req("recipe", action, caller) EXCEPT
                        !.pk = pk, !.payload = payload, !.format = format]
       /\ IF ~Permitted(RecipeGetPermissions(action), caller)
          THEN /\ response' = Resp(HTTP_401_UNAUTHORIZED, <<>>)
               /\ UNCHANGED db
          ELSE IF ~ObjectExists(pk)
          THEN /\ response' = Resp(404, <<>>)
               /\ UNCHANGED db
          ELSE IF ~RecipeIsValid(payload, format, partial)
          THEN /\ response' = Resp(HTTP_400_BAD_REQUEST, <<>>)
               /\ UNCHANGED db
          ELSE /\ writes < MaxWrites
               /\ writes' = writes + 1
               /\ response' = Resp(HTTP_200_OK, <<pk>>)
               /\ recipes' = Put(recipes, pk,
                                 SerializerUpdate(recipes[pk], payload, submitted))
               /\ UNCHANGED <<tags, ingredients, nextRecipeId>>

RecipeDestroy(caller, pk) ==
    /\ Idle
    /\ UNCHANGED accounts
    /\ request' = [Req("recipe", "destroy", caller) EXCEPT !.pk = pk]
    /\ IF ~Permitted(RecipeGetPermissions("destroy"), caller)
       THEN /\ response' = Resp(HTTP_401_UNAUTHORIZED, <<>>)
            /\ UNCHANGED db
       ELSE IF ~ObjectExists(pk)
       THEN /\ response' = Resp(404, <<>>)
            /\ UNCHANGED db
       ELSE /\ writes < MaxWrites
            /\ writes' = writes + 1
            /\ response' = Resp(204, <<>>)
            /\ recipes' = Remove(recipes, pk)
            /\ UNCHANGED <<tags, ingredients, nextRecipeId>>

\* RecipeImageSerializer: the payload must be a decodable image
ImageIsValid(payload) == "image" \in payload.fields /\ payload.image = "image"

\* RecipeImageSerializer.save(): the image reference of the row is replaced
ImageSave(instance, payload) == [instance EXCEPT !.image = 1]

\* an upload that saves the serializer before looking at is_valid()
UploadImageSaveFirst(caller, pk, image) ==
    LET payload == [NoPayload EXCEPT !.fields = {"image"}, !.image = image]
    IN /\ Idle
       /\ UNCHANGED accounts
       /\ request' = [Req("recipe", "upload_image", caller) EXCEPT
                        !.pk = pk, !.payload = payload, !.format = "multipart"]
       /\ IF ~Permitted(RecipeGetPermissions("upload_image"), caller)
          THEN /\ response' = Resp(HTTP_401_UNAUTHORIZED, <<>>)
               /\ UNCHANGED db
          ELSE IF ~ObjectExists(pk)
          THEN /\ response' = Resp(404, <<>>)
               /\ UNCHANGED db
          ELSE /\ writes < MaxWrites
               /\ writes' = writes + 1
               /\ response' = IF ImageIsValid(payload)
                              THEN Resp(HTTP_200_OK, <<pk>>)
                              ELSE Resp(HTTP_400_BAD_REQUEST, <<>>)
               /\ recipes' = Put(recipes, pk, ImageSave(recipes[pk], payload))
               /\ UNCHANGED <<tags, ingredients, nextRecipeId>>

UploadImage(caller, pk, image) ==
    LET payload == [NoPayload EXCEPT !.fields = {"image"}, !.image = image]
    IN /\ Idle
       /\ UNCHANGED accounts
       /\ request' = [Req("recipe", "upload_image", caller) EXCEPT
                        !.pk = pk, !.payload = payload, !.format = "multipart"]
       /\ IF ~Permitted(RecipeGetPermissions("upload_image"), caller)
          THEN /\ response' = Resp(HTTP_401_UNAUTHORIZED, <<>>)
               /\ UNCHANGED db
          ELSE IF ~ObjectExists(pk)
          THEN /\ response' = Resp(404, <<>>)
               /\ UNCHANGED db
          ELSE IF ImageIsValid(payload)
          THEN /\ writes < MaxWrites
               /\ writes' = writes + 1
               /\ response' = Resp(HTTP_200_OK, <<pk>>)
               /\ recipes' = Put(recipes, pk, ImageSave(recipes[pk], payload))
               /\ UNCHANGED <<tags, ingredients, nextRecipeId>>
          ELSE /\ response' = Resp(HTTP_400_BAD_REQUEST, <<>>)
               /\ UNCHANGED db

(***************************************************************************)
(* Inputs of the requests.                                                 *)
(***************************************************************************)
AttrListInputs ==
    (Callers \X {NoParam, <<"1">>}) \cup (Users \X {<<"0">>}) \cup {<<1, <<"abc">>>>}

\* <<caller, name, user field of the body>>
AttrCreateInputs ==
    (Users \X Names \X {NoOwner})
      \cup {<<1, 1, 2>>, <<2, 2, 2>>, <<Anon, 1, 1>>, <<1, Blank, NoOwner>>}

IdListParams == {<<"1">>, <<"2">>, <<"1", "2">>, <<"1", "abc">>, <<"">>}

ListParams ==
    {[NoParams EXCEPT !.tags = t] : t \in IdListParams}
      \cup {[NoParams EXCEPT !.ingredients = i] : i \in {<<"1">>, <<"1", "2">>}}
      \cup {[NoParams EXCEPT !.tags = <<"1", "2">>, !.ingredients = <<"1">>]}
      \cup {[NoParams EXCEPT !.user = <<u>>] : u \in {"1", "2"}}
      \cup {[NoParams EXCEPT !.tags = <<"1">>, !.user = <<"1">>]}

RecipeListInputs == (Callers \X {NoParams}) \cup ({2} \X ListParams)

\* primary keys named in detail requests: every id handed out, and the next one
RecipeIds == 1..nextRecipeId

\* id sets named in bodies: sets of existing ids, and one with an unknown id
TagIdSets == (SUBSET (1..Len(tags))) \cup {{Len(tags) + 1}}
IngredientIdSets == (SUBSET (1..Len(ingredients))) \cup {{Len(ingredients) + 1}}

BasicFields == {"title", "time_minutes", "price"}
AllFields == BasicFields \cup {"tags", "ingredients"}

\* <<caller, body, format>> of POST /recipes
RecipeCreateInputs ==
    (Users \X {RecipePayload(BasicFields, 1, {}, {}, NoOwner)} \X {"multipart"})
      \cup (Users \X {RecipePayload(AllFields, 1, t, {}, NoOwner) : t \in TagIdSets}
                  \X {"json"})
      \cup (Users \X {RecipePayload(AllFields, 1, {}, i, NoOwner) : i \in IngredientIdSets}
                  \X {"json"})
      \cup {<<1, RecipePayload(BasicFields, 1, {}, {}, NoOwner), "json">>,
            <<1, RecipePayload(AllFields \cup {"user"}, 1, {}, {}, 2), "json">>,
            <<2, RecipePayload(AllFields \cup {"user"}, 1, {}, {}, 2), "json">>,
            <<Anon, RecipePayload(BasicFields \cup {"user"}, 1, {}, {}, 1), "multipart">>}

\* <<caller, body, format>> of PUT /recipes/{id}
RecipeUpdateInputs ==
    ({2} \X {RecipePayload(BasicFields, v, {}, {}, NoOwner) : v \in Values}
         \X {"multipart"})
      \cup ({2} \X {RecipePayload(AllFields \cup {"link", "user"}, 2, t, {}, 2) :
                      t \in {{}, {Len(tags)}}}
                \X {"json"})
      \cup {<<2, RecipePayload(BasicFields, 2, {}, {}, NoOwner), "json">>,
            <<Anon, RecipePayload(BasicFields, 2, {}, {}, NoOwner), "multipart">>}

\* <<caller, body, format>> of PATCH /recipes/{id}
RecipePartialUpdateInputs ==
    ({2} \X {RecipePayload({"title", "tags"}, 2, t, {}, NoOwner) :
               t \in {{}, {Len(tags)}, {Len(tags) + 1}}}
         \X {"json"})
      \cup ({2} \X {RecipePayload({f}, 2, {}, {}, NoOwner) :
                      f \in {"time_minutes", "price", "link"}}
                \X {"multipart"})
      \cup {<<2, RecipePayload({"ingredients", "user"}, 2, {}, {Len(ingredients)}, 2), "json">>,
            <<Anon, RecipePayload({"title", "tags"}, 2, {}, {}, NoOwner), "json">>}

RecipeDestroyInputs == {2, Anon}

\* <<caller, uploaded payload>>
UploadImageInputs == {<<2, "image">>, <<2, "noimage">>, <<Anon, "image">>}

(***************************************************************************)
(* User store (core/models.py): UserManager over the User table.           *)
(***************************************************************************)
Emails == {"", "a@x.com", "a@X.COM", "b@x.com"}
Passwords == {"pw"}

\* keyword arguments passed on to the model: none, a name, or a staff flag
NoExtra == [fields |-> {}, name |-> "", is_staff |-> FALSE]
ExtraFields ==
    {NoExtra,
     [NoExtra EXCEPT !.fields = {"name"}, !.name = "Kyburz Crane"],
     [NoExtra EXCEPT !.fields = {"is_staff"}, !.is_staff = TRUE]}

\* BaseUserManager.normalize_email: the domain part is lower-cased
NormalizeEmail(email) == IF email = "a@X.COM" THEN "a@x.com" ELSE email

\* set_password: the stored value is a hash of the password, never the password
MakePassword(password) == <<"hash", password>>

\* self.model(email=..., **extra_fields) followed by set_password
NewUser(email, password, extra) ==
    [email |-> email,
     name |-> IF "name" \in extra.fields THEN extra.name ELSE "",
     password |-> MakePassword(password),
     is_active |-> TRUE,
     is_staff |-> IF "is_staff" \in extra.fields THEN extra.is_staff ELSE FALSE,
     is_superuser |-> FALSE]

\* email is unique: saving a second row with a stored email fails
EmailInUse(table, email) == \E i \in DOMAIN table : table[i].email = email

Raise(exception, table) == [raised |-> exception, users |-> table, result |-> <<>>]

\* a create_user without the email check
ManagerCreateUserAnyEmail(table, email, password, extra) ==
    LET user == NewUser(NormalizeEmail(email), password, extra)
    IN IF EmailInUse(table, user.email) THEN Raise("IntegrityError", table)
       ELSE [raised |-> "none", users |-> Append(table, user), result |-> <<user>>]

\* UserManager.create_user
ManagerCreateUser(table, email, password, extra) ==
    IF email = "" THEN Raise("ValueError", table)
    ELSE LET user == NewUser(NormalizeEmail(email), password, extra)
         IN IF EmailInUse(table, user.email) THEN Raise("IntegrityError", table)
            ELSE [raised |-> "none", users |-> Append(table, user),
                  result |-> <<user>>]

\* UserManager.create_superuser
ManagerCreateSuperuser(table, email, password, extra) ==
    LET created == ManagerCreateUser(table, email, password, extra)
    IN IF created.raised # "none" THEN created
       ELSE LET user == [created.result[1] EXCEPT
                           !.is_superuser = TRUE, !.is_staff = TRUE]
            IN [raised |-> "none",
                users |-> [created.users EXCEPT ![Len(created.users)] = user],
                result |-> <<user>>]

NoCall == [op |-> "none", email |-> "", extra |-> NoExtra,
           raised |-> "none", result |-> <<>>]

Called(op, email, extra, outcome) ==
    [op |-> op, email |-> email, extra |-> extra,
     raised |-> outcome.raised, result |-> outcome.result]

CreateUser ==
    \E email \in Emails, password \in Passwords, extra \in ExtraFields :
        LET outcome == ManagerCreateUser(users, email, password, extra)
        IN /\ users' = outcome.users
           /\ call' = Called("create_user", email, extra, outcome)
           /\ UNCHANGED api

CreateSuperuser ==
    \E email \in Emails, password \in Passwords, extra \in ExtraFields :
        LET outcome == ManagerCreateSuperuser(users, email, password, extra)
        IN /\ users' = outcome.users
           /\ call' = Called("create_superuser", email, extra, outcome)
           /\ UNCHANGED api

(***************************************************************************)
(* The specification: the empty database, then one request at a time.      *)
(***************************************************************************)
Init ==
    /\ tags = <<>>
    /\ ingredients = <<>>
    /\ recipes = <<>>
    /\ nextRecipeId = 1
    /\ writes = 0
    /\ request = NoRequest
    /\ response = NoResponse
    /\ users = <<>>
    /\ call = NoCall

ListTags ==
    \E in \in AttrListInputs : AttrList("tag", in[1], in[2])

ListIngredients ==
    \E in \in AttrListInputs : AttrList("ingredient", in[1], in[2])

CreateTag ==
    \E in \in AttrCreateInputs : AttrCreate("tag", in[1], in[2], in[3])

CreateIngredient ==
    \E in \in AttrCreateInputs : AttrCreate("ingredient", in[1], in[2], in[3])

ListRecipes ==
    \E in \in RecipeListInputs : RecipeList(in[1], in[2])

RetrieveRecipe ==
    \E pk \in RecipeIds : RecipeRetrieve(Anon, pk)

CreateRecipe ==
    \E in \in RecipeCreateInputs : RecipeCreate(in[1], in[2], in[3])

UpdateRecipe ==
    \E pk \in RecipeIds, in \in RecipeUpdateInputs :
        RecipeUpdate(in[1], pk, in[2], in[3], FALSE)

PartialUpdateRecipe ==
    \E pk \in RecipeIds, in \in RecipePartialUpdateInputs :
        RecipeUpdate(in[1], pk, in[2], in[3], TRUE)

DestroyRecipe ==
    \E pk \in RecipeIds, caller \in RecipeDestroyInputs : RecipeDestroy(caller, pk)

UploadRecipeImage ==
    \E pk \in RecipeIds, in \in UploadImageInputs : UploadImage(in[1], pk, in[2])

\* the response is returned and the request ends
Done ==
    /\ ~Idle
    /\ UNCHANGED accounts
    /\ request' = NoRequest
    /\ response' = NoResponse
    /\ UNCHANGED db

Next ==
    \/ ListTags
    \/ ListIngredients
    \/ CreateTag
    \/ CreateIngredient
    \/ ListRecipes
    \/ RetrieveRecipe
    \/ CreateRecipe
    \/ UpdateRecipe
    \/ PartialUpdateRecipe
    \/ DestroyRecipe
    \/ UploadRecipeImage
    \/ Done

Spec == Init /\ [][Next]_vars

\* the user store on its own: calls of the manager on the empty User table
NextUsers ==
    \/ CreateUser
    \/ CreateSuperuser

SpecUsers == Init /\ [][NextUsers]_vars

(***************************************************************************)
(* Properties.                                                             *)
(***************************************************************************)
IsAttrList == request.resource \in Kinds /\ request.action = "list"
IsRecipe(action) == request.resource = "recipe" /\ request.action = action
Returned == Range(response.data)
EachOnce(s) == \A x \in Range(s) : Count(s, x) = 1

\* C1: every entity a tag or ingredient list request returns, with or without
\* assigned_only, is owned by the requesting user.
C1_AttrListOnlyOwn ==
    (IsAttrList /\ response.status = HTTP_200_OK) =>
        \A id \in Returned : Table(request.resource)[id].user = request.caller

\* user 2 lists tags with assigned_only=1 and gets some, while a tag of user 1
\* is linked to a recipe as well
C1_Witness ==
    /\ IsAttrList /\ request.resource = "tag" /\ request.caller = 2
    /\ request.params.assigned_only = <<"1">>
    /\ response.status = HTTP_200_OK /\ Returned # {}
    /\ \E id \in DOMAIN tags : tags[id].user = 1 /\ LinkedRecipes("tag", id) # {}

\* C2: a recipe list request by an authenticated user without query parameters
\* returns only recipes owned by that user.
C2_RecipeListOnlyOwn ==
    (IsRecipe("list") /\ request.caller \in Users /\ request.params = NoParams
       /\ response.status = HTTP_200_OK) =>
        \A r \in Returned : recipes[r].user = request.caller

NewRow(table) == table'[Len(table')]

\* C3: a successful create of a tag, ingredient or recipe stores the caller as
\* owner whatever user field the body carries, and no step (update and partial
\* update included) changes the owner of a stored recipe, tag or ingredient.
C3_OwnerIsCaller ==
    [][/\ (request'.action = "create" /\ response'.status = HTTP_201_CREATED) =>
            /\ request'.resource = "tag" => NewRow(tags).user = request'.caller
            /\ request'.resource = "ingredient" =>
                   NewRow(ingredients).user = request'.caller
            /\ request'.resource = "recipe" =>
                   recipes'[response'.data[1]].user = request'.caller
       /\ \A r \in DOMAIN recipes \cap DOMAIN recipes' :
              recipes'[r].user = recipes[r].user
       /\ \A i \in DOMAIN tags : tags'[i].user = tags[i].user
       /\ \A i \in DOMAIN ingredients : ingredients'[i].user = ingredients[i].user
      ]_vars

\* a recipe created by a caller whose body named another user as owner
C3_Witness ==
    /\ IsRecipe("create") /\ response.status = HTTP_201_CREATED
    /\ "user" \in request.payload.fields
    /\ request.payload.user # request.caller
    /\ recipes[response.data[1]].user = request.caller

ProtectedRequest(req) ==
    \/ req.resource \in Kinds /\ req.action \in {"list", "create"}
    \/ req.resource = "recipe"
         /\ req.action \in {"create", "update", "partial_update", "destroy"}

\* C4: a request without valid credentials to a tag or ingredient action or to
\* recipe create, update, partial_update or destroy is answered 401 with no
\* data, and the stored tags, ingredients and recipes are unchanged.
C4_AnonymousRejected ==
    [][(request'.caller = Anon /\ ProtectedRequest(request')) =>
          /\ response'.status = HTTP_401_UNAUTHORIZED
          /\ response'.data = <<>>
          /\ UNCHANGED store
      ]_vars

\* an anonymous destroy of an existing recipe, rejected
C4_Witness ==
    /\ IsRecipe("destroy") /\ request.caller = Anon
    /\ request.pk \in DOMAIN recipes
    /\ response.status = HTTP_401_UNAUTHORIZED

\* C5: an upload_image request from an unauthenticated caller for a stored
\* recipe is rejected with 401 and does not change the recipe's image reference.
C5_AnonymousUploadRejected ==
    [][(request'.resource = "recipe" /\ request'.action = "upload_image"
          /\ request'.caller = Anon /\ request'.pk \in DOMAIN recipes) =>
          /\ response'.status = HTTP_401_UNAUTHORIZED
          /\ recipes' = recipes
      ]_vars

\* C6: an unauthenticated GET of the recipe list is answered 401.
C6_AnonymousRecipeListRejected ==
    (IsRecipe("list") /\ request.caller = Anon) =>
        response.status = HTTP_401_UNAUTHORIZED

Owned(kind, user) == {id \in DOMAIN Table(kind) : Table(kind)[id].user = user}

\* C7: a tag or ingredient list request with assigned_only=1 returns exactly
\* the caller's entities linked to at least one recipe, with assigned_only
\* absent or 0 all of the caller's entities, and each of them once.
C7_AssignedOnlyExactOnce ==
    (IsAttrList /\ response.status = HTTP_200_OK
       /\ request.params.assigned_only \in {NoParam, <<"0">>, <<"1">>}) =>
        LET kind == request.resource
            mine == Owned(kind, request.caller)
        IN /\ Returned =
                IF request.params.assigned_only = <<"1">>
                THEN {id \in mine : LinkedRecipes(kind, id) # {}}
                ELSE mine
           /\ EachOnce(response.data)

\* assigned_only=1 returns a tag that two recipes are linked to
C7_Witness ==
    /\ IsAttrList /\ request.params.assigned_only = <<"1">>
    /\ response.status = HTTP_200_OK
    /\ \E id \in Returned : Cardinality(LinkedRecipes(request.resource, id)) >= 2

ParamIds(qs) == {ToInt(qs[i]) : i \in DOMAIN qs}

\* C8: recipe listing with tags=T1,T2 returns exactly the recipes linked to T1
\* or T2 and none linked to neither; ingredients=I1,I2 restricts the same way
\* through the ingredient association (and user=U to the recipes of U).
C8_FilterIsUnion ==
    (IsRecipe("list") /\ response.status = HTTP_200_OK) =>
        Returned =
          {r \in DOMAIN recipes :
             /\ Truthy(request.params.tags) =>
                  \E t \in ParamIds(request.params.tags) : t \in recipes[r].tags
             /\ Truthy(request.params.ingredients) =>
                  \E i \in ParamIds(request.params.ingredients) :
                      i \in recipes[r].ingredients
             /\ Truthy(request.params.user) =>
                  recipes[r].user \in ParamIds(request.params.user)}

\* tags=1,2 returns a recipe linked to tag 1 alone and leaves another recipe out
C8_Witness ==
    /\ IsRecipe("list") /\ request.params.tags = <<"1", "2">>
    /\ response.status = HTTP_200_OK
    /\ \E r \in Returned : recipes[r].tags = {1}
    /\ \E r \in DOMAIN recipes : r \notin Returned

Patched(req, resp) ==
    /\ req.resource = "recipe" /\ req.action = "partial_update"
    /\ resp.status = HTTP_200_OK

\* C9: a successful PATCH of title and tags alone sets the title, makes the tag
\* set equal to the submitted one, and leaves time_minutes, price, link,
\* ingredients, image and owner of the recipe, and every other row, unchanged.
C9_PatchChangesOnlySubmitted ==
    [][(Patched(request', response')
          /\ request'.payload.fields = {"title", "tags"}) =>
          LET pk == request'.pk
              old == recipes[pk]
              new == recipes'[pk]
          IN /\ new.title = request'.payload.title
             /\ new.tags = request'.payload.tags
             /\ new.time_minutes = old.time_minutes
             /\ new.price = old.price
             /\ new.link = old.link
             /\ new.ingredients = old.ingredients
             /\ new.image = old.image
             /\ new.user = old.user
             /\ DOMAIN recipes' = DOMAIN recipes
             /\ \A r \in DOMAIN recipes \ {pk} : recipes'[r] = recipes[r]
             /\ UNCHANGED <<tags, ingredients>>
      ]_vars

\* a PATCH of title and tags that emptied the tag set while a tag exists, the
\* new title differing from the untouched time_minutes
C9_Witness ==
    /\ Patched(request, response)
    /\ request.payload.fields = {"title", "tags"}
    /\ Len(tags) >= 1
    /\ recipes[request.pk].tags = {}
    /\ recipes[request.pk].title # recipes[request.pk].time_minutes

PutWithoutTags(req) ==
    /\ req.resource = "recipe" /\ req.action = "update"
    /\ req.caller \in Users
    /\ req.payload.fields = BasicFields

\* C10 as stated: a PUT of an existing recipe by an authenticated caller with
\* title, time_minutes and price but no tags field succeeds, sets the three
\* fields and leaves the recipe without tags.
C10_PutWithoutTagsClears ==
    (PutWithoutTags(request) /\ request.pk \in DOMAIN recipes) =>
        /\ response.status = HTTP_200_OK
        /\ recipes[request.pk].title = request.payload.title
        /\ recipes[request.pk].time_minutes = request.payload.time_minutes
        /\ recipes[request.pk].price = request.payload.price
        /\ recipes[request.pk].tags = {}

\* C10 amended: such a PUT succeeds, sets the three fields and empties the tag
\* set when the body is form-encoded (multipart); the same body sent as JSON is
\* answered 400 and changes nothing.
C10_PutWithoutTagsByFormat ==
    [][(PutWithoutTags(request') /\ request'.pk \in DOMAIN recipes) =>
          LET pk == request'.pk
          IN IF request'.format = "multipart"
             THEN /\ response'.status = HTTP_200_OK
                  /\ pk \in DOMAIN recipes'
                  /\ recipes'[pk].title = request'.payload.title
                  /\ recipes'[pk].time_minutes = request'.payload.time_minutes
                  /\ recipes'[pk].price = request'.payload.price
                  /\ recipes'[pk].tags = {}
             ELSE /\ response'.status = HTTP_400_BAD_REQUEST
                  /\ UNCHANGED store
      ]_vars

\* a form-encoded PUT without tags, answered 200, on a recipe now without tags
\* while a tag exists
C10_Witness ==
    /\ PutWithoutTags(request) /\ request.format = "multipart"
    /\ response.status = HTTP_200_OK
    /\ Len(tags) >= 1
    /\ recipes[request.pk].tags = {}
    /\ recipes[request.pk].title = 2

\* C11: upload_image with a payload that is no decodable image, for a stored
\* recipe, is answered 400 and leaves the recipe's image reference, and the
\* rest of the store, as it was, whether the slot was empty or held an image.
C11_BadImageRejected ==
    [][(request'.resource = "recipe" /\ request'.action = "upload_image"
          /\ request'.payload.image # "image"
          /\ request'.pk \in DOMAIN recipes) =>
          /\ response'.status = HTTP_400_BAD_REQUEST
          /\ request'.pk \in DOMAIN recipes'
          /\ recipes'[request'.pk].image = recipes[request'.pk].image
          /\ UNCHANGED store
      ]_vars

\* a non-image upload answered 400 for a recipe that already holds an image
C11_Witness ==
    /\ IsRecipe("upload_image") /\ request.payload.image = "noimage"
    /\ response.status = HTTP_400_BAD_REQUEST
    /\ request.pk \in DOMAIN recipes
    /\ recipes[request.pk].image # Blank

MalformedIdList(qs) == Truthy(qs) /\ \E i \in DOMAIN qs : ~IsIntToken(qs[i])

\* C12: a recipe list request whose tags or ingredients parameter holds a
\* non-integer token is answered with a 400-class client error.
C12_MalformedIdsRejected ==
    (IsRecipe("list")
       /\ (MalformedIdList(request.params.tags)
             \/ MalformedIdList(request.params.ingredients))) =>
        response.status \in 400..499


UserCall(op) == call'.op = op

\* the call raised nothing, appended one row to the User table with the given
\* flags, and returned that row
PersistedOne(staff, superuser) ==
    /\ call'.raised = "none"
    /\ Len(users') = Len(users) + 1
    /\ SubSeq(users', 1, Len(users)) = users
    /\ LET user == users'[Len(users')]
       IN /\ user.is_active
          /\ user.is_staff = staff
          /\ user.is_superuser = superuser
          /\ call'.result = <<user>>

FreshEmail == ~EmailInUse(users, NormalizeEmail(call'.email))

Modified(r) == r \notin DOMAIN recipes' \/ recipes'[r] # recipes[r]

\* C14: a step changes or deletes a stored recipe (fields, tag and ingredient
\* links, image reference, existence) only when the request's caller is the
\* recipe's owner.
C14_OnlyOwnerModifies ==
    [][\A r \in DOMAIN recipes :
          Modified(r) => request'.caller = recipes[r].user
      ]_vars

\* C15: a successful recipe list response holds each recipe at most once,
\* whatever the tags, ingredients and user parameters.
C15_RecipeListEachOnce ==
    (IsRecipe("list") /\ response.status = HTTP_200_OK) =>
        EachOnce(response.data)

====
